---- MODULE Spec2Model ----
(***************************************************************************)
(* A model of Audio::Player (src/src/Player.cpp): the loaded audio data,   *)
(* the playback cursor, the playback properties, the RtAudio output stream *)
(* and the output callback that RtAudio runs on its own thread; and of the *)
(* sample buffer of Audio::InputStream (src/src/InputStream.hpp), filled   *)
(* by the input callback and read by the control thread under a mutex.     *)
(*                                                                         *)
(* Samples, volumes and times are floating point numbers in the source.    *)
(* Here a sample or a volume is an integer, and a time in seconds is an    *)
(* exact fraction [num, den] with den > 0; the conversion of a double to   *)
(* int64_t is the truncation toward zero that static_cast performs.        *)
(***************************************************************************)
EXTENDS Integers, Sequences, FiniteSets, TLC

VARIABLES
    data,                      \* Player::_data: [samples, channels_count, sample_rate]
    next_frame_to_play,        \* Player::_next_frame_to_play (int64_t)
    is_playing,                \* Player::_is_playing
    properties,                \* Player::_properties: [volume, is_muted, does_loop]
    current_output_device_id,  \* Player::_current_output_device_id
    stream_open,               \* backend().isStreamOpen()
    ctl,                       \* the control thread: where it is inside a Player call
    cb,                        \* the audio thread: where it is inside audio_callback
    out_buffer,                \* what audio_callback has written to output_buffer so far
    ret,                       \* history: the last call the control thread completed
    blk,                       \* history: what happened during the current callback block
    held,                      \* history: the cursor held through paused blocks
    log,                       \* history: the last calls of the control thread, oldest first
    frm,                       \* history: what the frame being written was computed from
    samples,                   \* InputStream::_samples, oldest first
    nb_of_retained_samples,    \* InputStream::_nb_of_retained_samples
    samples_mutex,             \* InputStream::_samples_mutex: who holds it
    icb,                       \* the input thread: where it is inside audio_input_callback
    reader,                    \* the control thread: where it is inside for_each_sample
    visited,                   \* history: the values for_each_sample has passed to its callback
    pushed,                    \* history: how many samples the input callback has pushed
    raised                     \* history: the retained length was raised after a push

player_vars == << data, next_frame_to_play, is_playing, properties,
                  current_output_device_id, stream_open,
                  ctl, cb, out_buffer, ret, blk, held, log, frm >>

input_vars == << samples, nb_of_retained_samples, samples_mutex,
                 icb, reader, visited, pushed, raised >>

vars == << player_vars, input_vars >>

---------------------------------------------------------------------------
(* Program constants *)

output_channels_count == 2

default_nb_of_retained_samples == 256

(* Bounds of the model *)

MaxLen == 4          \* longest stored sample sequence
MaxChannels == 3     \* largest channels_count of a loaded AudioData
MaxRate == 3         \* largest sample_rate of a loaded AudioData
MaxFrameIndex == 5   \* queried frame indices are -MaxFrameIndex..MaxFrameIndex
MaxChannelIndex == 3 \* queried channel indices are 0..MaxChannelIndex
MaxK == 2            \* loop periods shifted by: -MaxK..MaxK
MaxVolume == 2       \* volumes are -1..MaxVolume
MaxTimeNum == 4      \* times are num/den, num in -MaxTimeNum..MaxTimeNum
MaxCalls == 3        \* SpecTime: calls made by the control thread
MaxFrames == 2       \* Spec: largest frames_count of a callback block
MaxCursor == 2       \* Spec: no callback block starts with the cursor beyond
MaxPausedBlocks == 2 \* Spec: paused blocks in a row counted up to
MaxBlock == 2        \* SpecInput: largest frames_count of an input block
MaxPushed == 5       \* SpecInput: no input block starts once this many samples were pushed
MaxRetained == 3     \* SpecInput: set_nb_of_retained_samples is called with 0..MaxRetained
MaxAsk == 4          \* SpecInput: for_each_sample is called with 0..MaxAsk

---------------------------------------------------------------------------
(* Values *)

\* An AudioData of len samples; sample i (from 1) holds the value i, so that
\* a returned value names the stored position it was read from, and no
\* stored sample is 0 (silence).
MkData(len, channels, rate) ==
    [samples |-> [i \in 1..len |-> i], channels_count |-> channels, sample_rate |-> rate]

\* AudioData{}: what reset_audio_data() passes to set_audio_data.
EmptyData == MkData(0, 0, 0)

Time(n, d) == [num |-> n, den |-> d]

ZeroTime == Time(0, 1)

Abs(x) == IF x < 0 THEN -x ELSE x

\* C++ integer division and remainder of int64_t by a positive divisor:
\* the quotient is truncated toward zero, the remainder has the sign of a.
TruncDiv(a, b) == IF a >= 0 THEN a \div b ELSE -((-a) \div b)

CppRem(a, b) == a - b * TruncDiv(a, b)

NoRet == [op |-> "none"]

---------------------------------------------------------------------------
(* Player's pure member functions *)

has_audio_data == Len(data.samples) > 0

has_device == current_output_device_id # 0

\* mod with the negative remainder negated instead of shifted by b.
mod_negated(a, b) ==
    LET res == CppRem(a, b)
    IN  IF res < 0 THEN -res ELSE res

mod(a, b) ==
    LET res == CppRem(a, b)
    IN  IF res < 0 THEN res + b ELSE res

\* sample_unaltered_volume with the upper bound test off by one (> for >=).
sample_unaltered_volume_off_by_one(frame_index, channel_index) ==
    IF ~has_audio_data
    THEN 0
    ELSE LET sample_index == frame_index * data.channels_count
                             + CppRem(channel_index, data.channels_count)
             size == Len(data.samples)
         IN  IF (sample_index < 0 \/ sample_index > size) /\ ~properties.does_loop
             THEN 0
             ELSE data.samples[mod(sample_index, size) + 1]

\* sample_unaltered_volume without the wrap of the channel index.
sample_unaltered_volume_no_wrap(frame_index, channel_index) ==
    IF ~has_audio_data
    THEN 0
    ELSE LET sample_index == frame_index * data.channels_count + channel_index
             size == Len(data.samples)
         IN  IF (sample_index < 0 \/ sample_index >= size) /\ ~properties.does_loop
             THEN 0
             ELSE data.samples[mod(sample_index, size) + 1]

sample_unaltered_volume(frame_index, channel_index) ==
    IF ~has_audio_data
    THEN 0
    ELSE LET sample_index == frame_index * data.channels_count
                             + CppRem(channel_index, data.channels_count)
             size == Len(data.samples)
         IN  IF (sample_index < 0 \/ sample_index >= size) /\ ~properties.does_loop
             THEN 0
             ELSE data.samples[mod(sample_index, size) + 1]

\* sample with the volume clamped to [0, +oo).
sample_clamped(frame_index, channel_index) ==
    IF properties.is_muted
    THEN 0
    ELSE (IF properties.volume < 0 THEN 0 ELSE properties.volume)
         * sample_unaltered_volume(frame_index, channel_index)

sample(frame_index, channel_index) ==
    IF properties.is_muted
    THEN 0
    ELSE properties.volume * sample_unaltered_volume(frame_index, channel_index)

\* time_to_frame without the sample_rate factor.
time_to_frame_no_rate(sample_rate, time_in_seconds) ==
    TruncDiv(time_in_seconds.num, time_in_seconds.den)

\* time_to_frame rounding down (floor) instead of toward zero.
time_to_frame_floor(sample_rate, time_in_seconds) ==
    (sample_rate * time_in_seconds.num) \div time_in_seconds.den

\* static_cast<int64_t>(static_cast<double>(sample_rate) * time_in_seconds)
time_to_frame(sample_rate, time_in_seconds) ==
    TruncDiv(sample_rate * time_in_seconds.num, time_in_seconds.den)

get_time ==
    IF data.sample_rate = 0
    THEN ZeroTime
    ELSE Time(next_frame_to_play, data.sample_rate)

\* set_audio_data(d) that leaves the cursor as it is.
cursor_after_swap_kept(d) == next_frame_to_play

\* set_audio_data(d): current_time = get_time(); _data = d; set_time(current_time)
cursor_after_swap(d) == time_to_frame(d.sample_rate, get_time)

---------------------------------------------------------------------------
(* The state after Player::Player(): update_device_if_necessary() has      *)
(* cached the default output device dev that the backend answered (0: the  *)
(* machine has none), no data is loaded, no stream is open.                *)

Devices == 0..1

DefaultProperties == [volume |-> 1, is_muted |-> FALSE, does_loop |-> FALSE]

IdleCtl == [pc |-> "idle", op |-> "none", d |-> EmptyData]

IdleCb == [pc |-> "idle", frames_count |-> 0, frame_idx |-> 0, channel_idx |-> 0, tmp |-> 0]

NoBlk == [c0 |-> 0, mode |-> "none", seek |-> FALSE, props |-> FALSE]

NoHeld == [state |-> "none", at |-> 0, f |-> 0, n |-> 0]

NoFrm == [n |-> 0, playing |-> FALSE, cursor |-> 0]

Constructed(dev) ==
    /\ data = EmptyData
    /\ next_frame_to_play = 0
    /\ is_playing = FALSE
    /\ properties = DefaultProperties
    /\ current_output_device_id = dev
    /\ stream_open = FALSE
    /\ ctl = IdleCtl
    /\ cb = IdleCb
    /\ out_buffer = << >>
    /\ ret = NoRet
    /\ blk = NoBlk
    /\ held = NoHeld
    /\ log = << >>
    /\ frm = NoFrm

\* The state after InputStream::InputStream(): the member initializers of
\* InputStream.hpp, and an input stream that has delivered nothing yet.
IdleIcb == [pc |-> "idle", frames_count |-> 0, frame_idx |-> 0]

IdleReader == [pc |-> "idle", samples_count |-> 0, count |-> 0, idx |-> 0]

InputConstructed ==
    /\ samples = << >>
    /\ nb_of_retained_samples = default_nb_of_retained_samples
    /\ samples_mutex = "free"
    /\ icb = IdleIcb
    /\ reader = IdleReader
    /\ visited = << >>
    /\ pushed = 0
    /\ raised = FALSE

---------------------------------------------------------------------------
(* SpecPure: sample() and sample_unaltered_volume() on every loaded data   *)
(* and every setting of the properties.  No output device exists, so no    *)
(* stream is open and the audio thread never runs.                         *)

PureDatas ==
    {EmptyData} \cup {MkData(len, ch, 1) : len \in 1..MaxLen, ch \in 1..MaxChannels}

AllProperties ==
    [volume : -1..MaxVolume, is_muted : BOOLEAN, does_loop : BOOLEAN]

FrameIndices == -MaxFrameIndex..MaxFrameIndex

ChannelIndices == 0..MaxChannelIndex

InitPure ==
    /\ data \in PureDatas
    /\ properties \in AllProperties
    /\ next_frame_to_play = 0
    /\ is_playing = FALSE
    /\ current_output_device_id = 0
    /\ stream_open = FALSE
    /\ ctl = IdleCtl
    /\ cb = IdleCb
    /\ out_buffer = << >>
    /\ ret = NoRet
    /\ blk = NoBlk
    /\ held = NoHeld
    /\ log = << >>
    /\ frm = NoFrm
    /\ InputConstructed

\* The control thread calls sample(f, c) and sample_unaltered_volume(f, c).
QuerySample(f, c) ==
    /\ ctl.pc = "idle"
    /\ ret' = [op |-> "sample", frame_index |-> f, channel_index |-> c,
               value |-> sample(f, c),
               unaltered |-> sample_unaltered_volume(f, c)]
    /\ UNCHANGED << data, next_frame_to_play, is_playing, properties,
                    current_output_device_id, stream_open,
                    ctl, cb, out_buffer, blk, held, log, frm, input_vars >>

NextPure == \E f \in FrameIndices, c \in ChannelIndices : QuerySample(f, c)

SpecPure == InitPure /\ [][NextPure]_vars

---------------------------------------------------------------------------
(* The control thread: Player's calls.  A call that touches the stream is  *)
(* several steps (ctl.pc); the audio thread may run between two of them.   *)
(* backend().closeStream() returns once the callback in flight, if any,    *)
(* has returned: the step that closes waits for cb.pc = "idle".            *)
(* No action here constrains ret or log, the history of the calls: each    *)
(* specification says what it records of them.                             *)

\* What a control-thread write does to the history of the block in flight.
BlkSeek == IF cb.pc # "idle" THEN [blk EXCEPT !.seek = TRUE] ELSE blk

BlkProps == IF cb.pc # "idle" THEN [blk EXCEPT !.props = TRUE] ELSE blk

BlkFlip(from) ==
    IF cb.pc # "idle" /\ blk.mode = from THEN [blk EXCEPT !.mode = "mixed"] ELSE blk

\* play that also rewinds the cursor to the start of the data.
Play_rewinds ==
    /\ ctl.pc = "idle"
    /\ is_playing' = TRUE
    /\ next_frame_to_play' = 0
    /\ blk' = IF is_playing THEN blk ELSE BlkFlip("paused")
    /\ UNCHANGED << data, properties, current_output_device_id,
                    stream_open, ctl, cb, out_buffer, held >>

\* Player::play
Play ==
    /\ ctl.pc = "idle"
    /\ is_playing' = TRUE
    /\ blk' = IF is_playing THEN blk ELSE BlkFlip("paused")
    /\ UNCHANGED << data, next_frame_to_play, properties, current_output_device_id,
                    stream_open, ctl, cb, out_buffer, held >>

\* Player::pause
Pause ==
    /\ ctl.pc = "idle"
    /\ is_playing' = FALSE
    /\ blk' = IF is_playing THEN BlkFlip("playing") ELSE blk
    /\ UNCHANGED << data, next_frame_to_play, properties, current_output_device_id,
                    stream_open, ctl, cb, out_buffer, held >>

\* Player::set_time
SetTime(t) ==
    /\ ctl.pc = "idle"
    /\ LET next == time_to_frame(data.sample_rate, t)
       IN  next_frame_to_play' = next
    /\ blk' = BlkSeek
    /\ held' = NoHeld
    /\ UNCHANGED << data, is_playing, properties, current_output_device_id,
                    stream_open, ctl, cb, out_buffer >>

\* What Player::set_time(t) returns: has_changed, line 132.
set_time_returns(t) == time_to_frame(data.sample_rate, t) # next_frame_to_play

\* Player::get_time: a read, no field changes.
GetTime ==
    /\ ctl.pc = "idle"
    /\ UNCHANGED << data, next_frame_to_play, is_playing, properties,
                    current_output_device_id, stream_open,
                    ctl, cb, out_buffer, blk, held >>

\* A write to the playback properties (volume, mute, loop).
SetProperties(p) ==
    /\ ctl.pc = "idle"
    /\ p # properties
    /\ properties' = p
    /\ blk' = BlkProps
    /\ UNCHANGED << data, next_frame_to_play, is_playing, current_output_device_id,
                    stream_open, ctl, cb, out_buffer, held >>

\* CloseIfOpen that does not wait for the callback in flight.
CloseWithoutWaiting ==
    IF stream_open THEN stream_open' = FALSE ELSE UNCHANGED stream_open

\* if (backend().isStreamOpen()) backend().closeStream();
CloseIfOpen ==
    IF stream_open
    THEN cb.pc = "idle" /\ stream_open' = FALSE
    ELSE UNCHANGED stream_open

\* Player::set_audio_data, lines 100-101: the stream is closed first.
SetAudioData_close(d) ==
    /\ ctl.pc = "idle"
    /\ CloseIfOpen
    /\ ctl' = [pc |-> "sad_swap", op |-> "set_audio_data", d |-> d]
    /\ UNCHANGED << data, next_frame_to_play, is_playing, properties,
                    current_output_device_id, cb, out_buffer,
                    blk, held >>

\* Player::set_audio_data, lines 103-106: the data is replaced and the cursor
\* recomputed from the time held before.
SetAudioData_swap ==
    /\ ctl.pc = "sad_swap"
    /\ next_frame_to_play' = cursor_after_swap(ctl.d)
    /\ data' = ctl.d
    /\ blk' = BlkSeek
    /\ held' = NoHeld
    /\ ctl' = [ctl EXCEPT !.pc = "rc_close"]
    /\ UNCHANGED << is_playing, properties, current_output_device_id, stream_open, cb, out_buffer >>

\* Recreate_close that leaves an open stream open.
Recreate_close_keeps_stream ==
    /\ ctl.pc = "rc_close"
    /\ ctl' = [ctl EXCEPT !.pc = "rc_open"]
    /\ UNCHANGED << data, next_frame_to_play, is_playing, properties,
                    current_output_device_id, stream_open, cb, out_buffer,
                    blk, held >>

\* Player::recreate_stream_adapted_to_current_audio_data, lines 72-73.
Recreate_close ==
    /\ ctl.pc = "rc_close"
    /\ CloseIfOpen
    /\ ctl' = [ctl EXCEPT !.pc = "rc_open"]
    /\ UNCHANGED << data, next_frame_to_play, is_playing, properties,
                    current_output_device_id, cb, out_buffer,
                    blk, held >>

\* recreate_opens with the test of lines 75-77 inverted.
recreate_opens_inverted == ~has_audio_data \/ ~has_device

\* Whether recreate_stream_adapted_to_current_audio_data goes on to open.
recreate_opens == has_audio_data /\ has_device

\* Player::recreate_stream_adapted_to_current_audio_data, lines 75-95:
\* openStream and startStream; ok is whether the backend opened the stream
\* (it refuses an unsupported rate or a device that has gone).  The call
\* that ran it returns.
Recreate_open(ok) ==
    /\ ctl.pc = "rc_open"
    /\ stream_open' = IF recreate_opens THEN ok ELSE stream_open
    /\ ctl' = IdleCtl
    /\ UNCHANGED << data, next_frame_to_play, is_playing, properties,
                    current_output_device_id, cb, out_buffer,
                    blk, held >>

\* Player::update_device_if_necessary when backend().getDefaultOutputDevice()
\* answers the cached id (0: there is no output device).
UpdateDevice_same(id) ==
    /\ ctl.pc = "idle"
    /\ id = current_output_device_id
    /\ UNCHANGED << data, next_frame_to_play, is_playing, properties,
                    current_output_device_id, stream_open,
                    ctl, cb, out_buffer, blk, held >>

\* UpdateDevice_changed that recreates the stream but forgets to cache id.
UpdateDevice_changed_id_not_cached(id) ==
    /\ ctl.pc = "idle"
    /\ id # current_output_device_id
    /\ ctl' = [pc |-> "rc_close", op |-> "update_device_if_necessary", d |-> EmptyData]
    /\ UNCHANGED << data, next_frame_to_play, is_playing, properties,
                    current_output_device_id, stream_open, cb, out_buffer, blk, held >>

\* Player::update_device_if_necessary when it answers another id.
UpdateDevice_changed(id) ==
    /\ ctl.pc = "idle"
    /\ id # current_output_device_id
    /\ current_output_device_id' = id
    /\ ctl' = [pc |-> "rc_close", op |-> "update_device_if_necessary", d |-> EmptyData]
    /\ UNCHANGED << data, next_frame_to_play, is_playing, properties,
                    stream_open, cb, out_buffer, blk, held >>

\* Audio::shut_down
ShutDown ==
    /\ ctl.pc = "idle"
    /\ CloseIfOpen
    /\ UNCHANGED << data, next_frame_to_play, is_playing, properties,
                    current_output_device_id, ctl, cb, out_buffer,
                    blk, held >>

---------------------------------------------------------------------------
(* SpecTime: set_audio_data, set_time and get_time called one after the    *)
(* other from the constructed state, MaxCalls calls in all, each logged    *)
(* with what it returned.  is_playing stays false here, and a callback     *)
(* that runs while paused writes no field of the player, so the audio      *)
(* thread is left out.                                                     *)

TimeDatas == {EmptyData} \cup {MkData(MaxLen, 1, r) : r \in 1..MaxRate}

TimeDens == {1, 3}

Times == {Time(n, d) : n \in (-MaxTimeNum)..MaxTimeNum, d \in TimeDens}

InitTime == (\E dev \in Devices : Constructed(dev)) /\ InputConstructed

MoreCalls == Len(log) < MaxCalls

Returns(r) == ret' = r /\ log' = Append(log, r) /\ UNCHANGED << frm, input_vars >>

Running == ret' = NoRet /\ UNCHANGED << log, frm, input_vars >>

\* What the history records of set_audio_data and update_device_if_necessary
\* when recreate_stream_adapted_to_current_audio_data returns.
RecreateReturn(ok) ==
    [op |-> ctl.op, d |-> ctl.d, tried |-> recreate_opens, ok |-> (recreate_opens /\ ok)]

TSetAudioData(d) == MoreCalls /\ SetAudioData_close(d) /\ Running

TSwap == SetAudioData_swap /\ Running

TRecreateClose == Recreate_close /\ Running

TRecreateOpen(ok) == Recreate_open(ok) /\ Returns(RecreateReturn(ok))

TSetTime(t) ==
    /\ MoreCalls
    /\ SetTime(t)
    /\ Returns([op |-> "set_time", time |-> t, before |-> next_frame_to_play,
                has_changed |-> set_time_returns(t)])

TGetTime == MoreCalls /\ GetTime /\ Returns([op |-> "get_time", value |-> get_time])

NextTime ==
    \/ \E d \in TimeDatas : TSetAudioData(d)
    \/ TSwap
    \/ TRecreateClose
    \/ \E ok \in BOOLEAN : TRecreateOpen(ok)
    \/ \E t \in Times : TSetTime(t)
    \/ TGetTime

SpecTime == InitTime /\ [][NextTime]_vars

---------------------------------------------------------------------------
(* The audio thread: audio_callback, run by RtAudio while the stream is    *)
(* open.  It reads _is_playing, _next_frame_to_play, _properties and _data *)
(* without a lock: each read and each write is a step of its own, and the  *)
(* control thread may run between two of them.                             *)

\* A slot of the output buffer the callback has not written yet.
Unwritten == [written |-> FALSE, v |-> 0]

\* The loop of line 54 moves to the next frame, or the callback is done.
NextFrame(c) ==
    IF c.frame_idx + 1 < c.frames_count
    THEN [c EXCEPT !.pc = "write", !.frame_idx = c.frame_idx + 1, !.channel_idx = 0]
    ELSE [c EXCEPT !.pc = "return", !.frame_idx = c.frame_idx + 1]

\* RtAudio calls audio_callback for a block of n frames.
CbStart(n) ==
    /\ stream_open
    /\ cb.pc = "idle"
    /\ next_frame_to_play <= MaxCursor
    /\ cb' = [pc |-> "write", frames_count |-> n, frame_idx |-> 0, channel_idx |-> 0,
              tmp |-> 0]
    /\ out_buffer' = [i \in 0..(n * output_channels_count - 1) |-> Unwritten]
    /\ blk' = [c0 |-> next_frame_to_play,
               mode |-> IF is_playing THEN "playing" ELSE "paused",
               seek |-> FALSE, props |-> FALSE]
    /\ UNCHANGED << data, next_frame_to_play, is_playing, properties,
                    current_output_device_id, stream_open,
                    ctl, held >>

\* written_value reading channel 0 of the data for every output channel.
written_value_first_channel(channel_idx) ==
    IF is_playing THEN sample(next_frame_to_play, 0) ELSE 0

\* What lines 58-61 store in the output buffer.
written_value(channel_idx) ==
    IF is_playing THEN sample(next_frame_to_play, channel_idx) ELSE 0

\* Lines 56-62: one channel of the current frame is written.
CbWrite ==
    /\ cb.pc = "write"
    /\ out_buffer' = [out_buffer EXCEPT
                        ![cb.frame_idx * output_channels_count + cb.channel_idx] =
                            [written |-> TRUE, v |-> written_value(cb.channel_idx)]]
    /\ cb' = IF cb.channel_idx + 1 < output_channels_count
             THEN [cb EXCEPT !.channel_idx = cb.channel_idx + 1]
             ELSE [cb EXCEPT !.channel_idx = cb.channel_idx + 1, !.pc = "check"]
    /\ held' = IF is_playing /\ held.state = "held"
               THEN [held EXCEPT !.state = "resumed", !.f = next_frame_to_play]
               ELSE held
    /\ UNCHANGED << data, next_frame_to_play, is_playing, properties,
                    current_output_device_id, stream_open,
                    ctl, blk >>

\* Whether line 63 goes on to the increment.
advances == is_playing

\* Line 63, and the read of _next_frame_to_play that ++ starts with.
CbCheck ==
    /\ cb.pc = "check"
    /\ cb' = IF advances
             THEN [cb EXCEPT !.pc = "inc", !.tmp = next_frame_to_play]
             ELSE NextFrame(cb)
    /\ held' = IF held.state = "resumed" THEN NoHeld ELSE held
    /\ UNCHANGED << data, next_frame_to_play, is_playing, properties,
                    current_output_device_id, stream_open,
                    ctl, out_buffer, blk >>

\* Line 64: the write of ++_next_frame_to_play.
CbInc ==
    /\ cb.pc = "inc"
    /\ next_frame_to_play' = cb.tmp + 1
    /\ cb' = NextFrame(cb)
    /\ UNCHANGED << data, is_playing, properties, current_output_device_id,
                    stream_open, ctl, out_buffer, blk, held >>

\* CbReturn that pauses the player once its block is written.
CbReturn_pauses ==
    /\ cb.pc = "return"
    /\ cb' = IdleCb
    /\ out_buffer' = << >>
    /\ blk' = NoBlk
    /\ is_playing' = FALSE
    /\ UNCHANGED << data, next_frame_to_play, properties,
                    current_output_device_id, stream_open, ctl, held >>

\* Line 67: the callback returns.  History: a block that ran paused from end
\* to end, with no seek, holds the cursor.
CbReturn ==
    /\ cb.pc = "return"
    /\ cb' = IdleCb
    /\ out_buffer' = << >>
    /\ blk' = NoBlk
    /\ held' = IF blk.mode = "paused" /\ ~blk.seek
               THEN IF held.state = "held"
                    THEN [held EXCEPT !.n = IF held.n < MaxPausedBlocks
                                            THEN held.n + 1 ELSE held.n]
                    ELSE [state |-> "held", at |-> next_frame_to_play, f |-> 0, n |-> 1]
               ELSE held
    /\ UNCHANGED << data, next_frame_to_play, is_playing, properties,
                    current_output_device_id, stream_open,
                    ctl >>

---------------------------------------------------------------------------
(* Spec: the control thread and the audio thread, interleaved.             *)

ConcDatas == {EmptyData, MkData(MaxLen, 1, 1), MkData(MaxLen, 2, 2)}

ConcTimes == {Time(0, 1), Time(1, 1)}

ConcProperties ==
    {DefaultProperties,
     [DefaultProperties EXCEPT !.volume = MaxVolume, !.does_loop = TRUE]}

Init == (\E dev \in Devices : Constructed(dev)) /\ InputConstructed

\* The history keeps what the last call returned when it was one that
\* recreates the stream, and nothing of the other calls.
Plain == ret' = NoRet /\ UNCHANGED << log, frm, input_vars >>

Kept == UNCHANGED << ret, log, input_vars >>

CallPlay == Play /\ Plain

CallPause == Pause /\ Plain

CallSetTime(t) == SetTime(t) /\ Plain

WriteProperties(p) == SetProperties(p) /\ Plain

CallSetAudioData(d) == SetAudioData_close(d) /\ Plain

StepSwap == SetAudioData_swap /\ Plain

StepRecreateClose == Recreate_close /\ Plain

StepRecreateOpen(ok) ==
    Recreate_open(ok) /\ ret' = RecreateReturn(ok) /\ UNCHANGED << log, frm, input_vars >>

CallUpdateDeviceSame(id) == UpdateDevice_same(id) /\ Plain

CallUpdateDeviceChanged(id) == UpdateDevice_changed(id) /\ Plain

CallShutDown == ShutDown /\ Plain

\* The history of the frame being written: how many of its channels are
\* written, and the _is_playing and (when playing) the _next_frame_to_play
\* that the first of them was computed from.
FrmWritten ==
    IF frm.n = 0
    THEN [n |-> 1, playing |-> is_playing,
          cursor |-> IF is_playing THEN next_frame_to_play ELSE 0]
    ELSE [frm EXCEPT !.n = frm.n + 1]

BlockStart(n) == CbStart(n) /\ Kept /\ frm' = NoFrm

BlockWrite == CbWrite /\ Kept /\ frm' = FrmWritten

BlockCheck == CbCheck /\ Kept /\ frm' = NoFrm

BlockInc == CbInc /\ Kept /\ UNCHANGED frm

BlockReturn == CbReturn /\ Kept /\ UNCHANGED frm

Control ==
    \/ CallPlay
    \/ CallPause
    \/ \E t \in ConcTimes : CallSetTime(t)
    \/ \E p \in ConcProperties : WriteProperties(p)
    \/ \E d \in ConcDatas : CallSetAudioData(d)
    \/ StepSwap
    \/ StepRecreateClose
    \/ \E ok \in BOOLEAN : StepRecreateOpen(ok)
    \/ \E id \in Devices : CallUpdateDeviceSame(id)
    \/ \E id \in Devices : CallUpdateDeviceChanged(id)
    \/ CallShutDown

Callback ==
    \/ \E n \in 1..MaxFrames : BlockStart(n)
    \/ BlockWrite
    \/ BlockCheck
    \/ BlockInc
    \/ BlockReturn

Next == Control \/ Callback

Spec == Init /\ [][Next]_vars

---------------------------------------------------------------------------
(* SpecInput: the sample buffer of InputStream.  The input thread runs     *)
(* audio_input_callback for each block the device delivers: it pushes the  *)
(* frames of the block and trims the front of the buffer, holding          *)
(* _samples_mutex; the control thread sets the retained length and reads   *)
(* the latest samples under the same mutex.  The k-th sample pushed has    *)
(* the value k, so that a value names its place in the push sequence.      *)

Min(a, b) == IF a < b THEN a ELSE b

\* shrink_samples_to_fit that drops one sample at most.
shrink_once(s, n) == IF Len(s) > n THEN Tail(s) ELSE s

\* shrink_samples_to_fit dropping at the back, the newest samples.
RECURSIVE shrink_at_the_back(_, _)
shrink_at_the_back(s, n) ==
    IF Len(s) > n THEN shrink_at_the_back(SubSeq(s, 1, Len(s) - 1), n) ELSE s

\* InputStream::shrink_samples_to_fit: the front is dropped until the
\* size is no more than the retained length n.
RECURSIVE shrink_samples_to_fit(_, _)
shrink_samples_to_fit(s, n) ==
    IF Len(s) > n THEN shrink_samples_to_fit(Tail(s), n) ELSE s

\* The device delivers a block of n frames: audio_input_callback takes the mutex.
IcbStart(n) ==
    /\ icb.pc = "idle"
    /\ samples_mutex = "free"
    /\ pushed < MaxPushed
    /\ samples_mutex' = "input"
    /\ icb' = [pc |-> "push", frames_count |-> n, frame_idx |-> 0]
    /\ UNCHANGED << samples, nb_of_retained_samples, reader, visited, pushed, raised >>
    /\ UNCHANGED player_vars

\* One frame of the block is appended.
IcbPush ==
    /\ icb.pc = "push"
    /\ samples' = Append(samples, pushed + 1)
    /\ pushed' = pushed + 1
    /\ icb' = IF icb.frame_idx + 1 < icb.frames_count
              THEN [icb EXCEPT !.frame_idx = icb.frame_idx + 1]
              ELSE [icb EXCEPT !.frame_idx = icb.frame_idx + 1, !.pc = "trim"]
    /\ UNCHANGED << nb_of_retained_samples, samples_mutex, reader, visited, raised >>
    /\ UNCHANGED player_vars

\* The buffer is trimmed to the retained length.
IcbTrim ==
    /\ icb.pc = "trim"
    /\ samples' = shrink_samples_to_fit(samples, nb_of_retained_samples)
    /\ icb' = [icb EXCEPT !.pc = "unlock"]
    /\ UNCHANGED << nb_of_retained_samples, samples_mutex, reader, visited, pushed, raised >>
    /\ UNCHANGED player_vars

\* The mutex is released and the callback returns.
IcbReturn ==
    /\ icb.pc = "unlock"
    /\ samples_mutex' = "free"
    /\ icb' = IdleIcb
    /\ UNCHANGED << samples, nb_of_retained_samples, reader, visited, pushed, raised >>
    /\ UNCHANGED player_vars

\* InputStream::set_nb_of_retained_samples: the length is written under the
\* mutex (taken and released within the call); the buffer is left to the
\* next trim.
SetNbOfRetainedSamples(n) ==
    /\ reader.pc = "idle"
    /\ samples_mutex = "free"
    /\ n # nb_of_retained_samples
    /\ nb_of_retained_samples' = n
    /\ raised' = (raised \/ (pushed > 0 /\ n > nb_of_retained_samples))
    /\ UNCHANGED << samples, samples_mutex, icb, reader, visited, pushed >>
    /\ UNCHANGED player_vars

\* The sample at place i of the buffer (0 for a place the buffer has not).
sample_at(i) == IF i \in 1..Len(samples) THEN samples[i] ELSE 0

\* for_each_sample that does not take the mutex.
ForEachSample_begin_unlocked(samples_count) ==
    /\ reader.pc = "idle"
    /\ LET count == Min(samples_count, Len(samples))
       IN  reader' = [pc |-> "visit", samples_count |-> samples_count,
                      count |-> count, idx |-> Len(samples) - count + 1]
    /\ visited' = << >>
    /\ UNCHANGED << samples, nb_of_retained_samples, samples_mutex, icb, pushed, raised >>
    /\ UNCHANGED player_vars

\* InputStream::for_each_sample(samples_count, callback): the mutex is taken,
\* and the samples to visit are the latest samples_count, or all of them
\* when there are fewer.
ForEachSample_begin(samples_count) ==
    /\ reader.pc = "idle"
    /\ samples_mutex = "free"
    /\ samples_mutex' = "control"
    /\ LET count == Min(samples_count, Len(samples))
       IN  reader' = [pc |-> "visit", samples_count |-> samples_count,
                      count |-> count, idx |-> Len(samples) - count + 1]
    /\ visited' = << >>
    /\ UNCHANGED << samples, nb_of_retained_samples, icb, pushed, raised >>
    /\ UNCHANGED player_vars

\* The callback is given the next sample, oldest first.
ForEachSample_visit ==
    /\ reader.pc = "visit"
    /\ Len(visited) < reader.count
    /\ visited' = Append(visited, sample_at(reader.idx))
    /\ reader' = [reader EXCEPT !.idx = reader.idx + 1]
    /\ UNCHANGED << samples, nb_of_retained_samples, samples_mutex, icb, pushed, raised >>
    /\ UNCHANGED player_vars

\* Every sample was visited: the mutex is released, for_each_sample returns.
ForEachSample_end ==
    /\ reader.pc = "visit"
    /\ Len(visited) = reader.count
    /\ samples_mutex' = "free"
    /\ reader' = IdleReader
    /\ UNCHANGED << samples, nb_of_retained_samples, icb, visited, pushed, raised >>
    /\ UNCHANGED player_vars

InitInput == Constructed(0) /\ InputConstructed

InputCallback ==
    \/ \E n \in 1..MaxBlock : IcbStart(n)
    \/ IcbPush
    \/ IcbTrim
    \/ IcbReturn

InputControl ==
    \/ \E n \in 0..MaxRetained : SetNbOfRetainedSamples(n)
    \/ \E n \in 0..MaxAsk : ForEachSample_begin(n)
    \/ ForEachSample_visit
    \/ ForEachSample_end

NextInput == InputCallback \/ InputControl

SpecInput == InitInput /\ [][NextInput]_vars

---------------------------------------------------------------------------
(* Properties of sample() and sample_unaltered_volume(), under SpecPure    *)

frame_count == Len(data.samples) \div data.channels_count

WholeFrames == Len(data.samples) % data.channels_count = 0

Periods == (-MaxK)..MaxK

\* C1 (as claimed): with does_loop and non-empty data, for every frame
\* index f, channel c and integer k, sample_unaltered_volume(f, c) =
\* sample_unaltered_volume(f + k*frame_count, c), whatever the stored
\* length and channel count.
C1_LoopPeriodAnyLength ==
    (ret.op = "sample" /\ properties.does_loop /\ has_audio_data)
    => \A k \in Periods :
         ret.unaltered = sample_unaltered_volume(ret.frame_index + k * frame_count,
                                                 ret.channel_index)

\* C1 (amended): the same, for data whose stored length is a whole number
\* of frames (samples.size() is a multiple of channels_count).
C1_LoopPeriodWholeFrames ==
    (ret.op = "sample" /\ properties.does_loop /\ has_audio_data /\ WholeFrames)
    => \A k \in Periods :
         ret.unaltered = sample_unaltered_volume(ret.frame_index + k * frame_count,
                                                 ret.channel_index)

\* C1 witness: a looping read before the start of two-channel data wrapped
\* to a stored sample.
C1_Witness ==
    /\ ret.op = "sample" /\ properties.does_loop /\ has_audio_data /\ WholeFrames
    /\ data.channels_count = 2 /\ frame_count = 2
    /\ ret.frame_index = -1 /\ ret.channel_index = 1
    /\ ret.unaltered = 4

\* C2 (as claimed): without does_loop, on non-empty data, every read at a
\* frame index < 0 or >= frame_count returns 0.
C2_SilenceOutsideAnyLength ==
    (ret.op = "sample" /\ ~properties.does_loop /\ has_audio_data
       /\ (ret.frame_index < 0 \/ ret.frame_index >= frame_count))
    => ret.unaltered = 0

\* C2 (amended): the same, for data whose stored length is a whole number
\* of frames.
C2_SilenceOutsideWholeFrames ==
    (ret.op = "sample" /\ ~properties.does_loop /\ has_audio_data /\ WholeFrames
       /\ (ret.frame_index < 0 \/ ret.frame_index >= frame_count))
    => ret.unaltered = 0

\* C2 witness: a non-looping read at frame_index = frame_count of
\* two-channel data returned silence.
C2_Witness ==
    /\ ret.op = "sample" /\ ~properties.does_loop /\ has_audio_data /\ WholeFrames
    /\ data.channels_count = 2 /\ frame_count = 2
    /\ ret.frame_index = frame_count /\ ret.unaltered = 0

\* C3: sample(f, c) is 0 when is_muted, and volume * sample_unaltered_volume(f, c)
\* otherwise, for every volume (0 and negative volumes included, unclamped).
C3_MuteAndVolume ==
    ret.op = "sample"
    => /\ properties.is_muted => ret.value = 0
       /\ ~properties.is_muted => ret.value = properties.volume * ret.unaltered

\* C3 witness: an unmuted read of a stored sample at a negative volume
\* returned a negative value.
C3_Witness ==
    /\ ret.op = "sample" /\ ~properties.is_muted
    /\ properties.volume < 0 /\ ret.unaltered > 0 /\ ret.value < 0

\* C17: with non-empty data of C channels and 0 <= frame_index <
\* samples.size()/C, for every channel_index (those >= C included, as the
\* two-channel callback produces on mono data) sample_unaltered_volume
\* returns the stored sample at flat position frame_index*C +
\* (channel_index mod C), looping or not; for mono data both output
\* channels of a frame receive the same stored sample.
C17_InRangeChannelWrap ==
    (ret.op = "sample" /\ has_audio_data
       /\ 0 <= ret.frame_index /\ ret.frame_index < frame_count)
    => /\ ret.unaltered =
            data.samples[ret.frame_index * data.channels_count
                         + (ret.channel_index % data.channels_count) + 1]
       /\ data.channels_count = 1
          => \A c \in 0..(output_channels_count - 1) :
               sample_unaltered_volume(ret.frame_index, c) = data.samples[ret.frame_index + 1]

\* C17 witness: on mono data of 4 samples, not looping, the read of frame 2
\* for output channel 1 returned the third stored sample.
C17_Witness ==
    /\ ret.op = "sample" /\ data.channels_count = 1 /\ Len(data.samples) = 4
    /\ ~properties.does_loop
    /\ ret.frame_index = 2 /\ ret.channel_index = 1
    /\ ret.unaltered = 3

---------------------------------------------------------------------------
(* Properties of set_audio_data, set_time and get_time, under SpecTime     *)

\* The n-th call back from the last one logged (0: the last).
Call(n) == log[Len(log) - n]

\* |g - t| < tol, or g = t; g and t are times, tol is the fraction tn/td.
CloseTo(g, t, tn, td) ==
    LET e == Abs(g.num * t.den - t.num * g.den)
    IN  e = 0 \/ e * td < tn * g.den * t.den

\* The last three calls were set_audio_data(A), set_time(T), set_audio_data(B).
LoadSeekLoad ==
    /\ ctl.pc = "idle" /\ Len(log) >= 3
    /\ Call(2).op = "set_audio_data"
    /\ Call(1).op = "set_time"
    /\ Call(0).op = "set_audio_data"

\* One frame period of each of the two rates (none for a rate of 0).
FramePeriodsNum(rA, rB) ==
    IF rA > 0 /\ rB > 0 THEN rA + rB ELSE IF rA > 0 \/ rB > 0 THEN 1 ELSE 0

FramePeriodsDen(rA, rB) ==
    IF rA > 0 /\ rB > 0 THEN rA * rB ELSE IF rA > 0 THEN rA ELSE IF rB > 0 THEN rB ELSE 1

\* C7 (as claimed): after set_audio_data(A), set_time(T), set_audio_data(B),
\* for any A and any B of any sample_rate, get_time() is T up to the rounding
\* to whole frames (of A, then of B).
C7_TimeKeptAnyRate ==
    LoadSeekLoad
    => LET rA == Call(2).d.sample_rate
           rB == Call(0).d.sample_rate
       IN  CloseTo(get_time, Call(1).time, FramePeriodsNum(rA, rB), FramePeriodsDen(rA, rB))

\* C7 (amended): the same when A and B both have a sample_rate > 0:
\* get_time() is then within one frame period of A plus one of B of T.
C7_TimeKeptPositiveRates ==
    (LoadSeekLoad /\ Call(2).d.sample_rate > 0 /\ Call(0).d.sample_rate > 0)
    => LET rA == Call(2).d.sample_rate
           rB == Call(0).d.sample_rate
       IN  CloseTo(get_time, Call(1).time, rA + rB, rA * rB)

\* C7 witness: A at rate 2, a seek to 4/3 s (frame 2 of A, 1 s), B at rate 3:
\* the cursor is frame 3 of B.
C7_Witness ==
    /\ LoadSeekLoad
    /\ Call(2).d.sample_rate = 2 /\ Call(0).d.sample_rate = 3
    /\ Call(1).time = Time(4, 3)
    /\ next_frame_to_play = 3

\* The last two calls were set_time(t) and get_time(), on loaded data.
SeekThenAsk ==
    /\ ctl.pc = "idle" /\ Len(log) >= 2
    /\ Call(1).op = "set_time"
    /\ Call(0).op = "get_time"
    /\ has_audio_data /\ data.sample_rate > 0

\* t is in [0, duration), duration = frame_count / sample_rate.
InsideData(t) ==
    /\ t.num >= 0
    /\ t.num * data.sample_rate < (Len(data.samples) \div data.channels_count) * t.den

\* C8: with data of sample_rate r > 0 loaded, set_time(t) then get_time(), for
\* t in [0, duration), returns a time less than 1/r away from t; and
\* get_time() returns 0 whenever sample_rate is 0.
C8_TimeRoundTrip ==
    /\ (SeekThenAsk /\ InsideData(Call(1).time))
       => CloseTo(Call(0).value, Call(1).time, 1, data.sample_rate)
    /\ (ctl.pc = "idle" /\ ret.op = "get_time" /\ data.sample_rate = 0)
       => ret.value.num = 0

\* C8 witness: at rate 2, set_time(4/3) then get_time() returned 2/2 = 1 s.
C8_Witness ==
    /\ SeekThenAsk /\ InsideData(Call(1).time)
    /\ data.sample_rate = 2
    /\ Call(1).time = Time(4, 3)
    /\ Call(0).value = Time(2, 2)

\* set_time(t) has just returned.
Sought == ctl.pc = "idle" /\ ret.op = "set_time"

\* C9 (as claimed): set_time(seconds) sets the cursor to seconds * sample_rate
\* rounded to the nearest whole frame, for every value of seconds, and returns
\* true iff the new cursor differs from the one held before the call.
C9_SetTimeRoundsToNearest ==
    Sought
    => /\ 2 * Abs(next_frame_to_play * ret.time.den - data.sample_rate * ret.time.num)
            <= ret.time.den
       /\ ret.has_changed <=> (next_frame_to_play # ret.before)

\* C9 (amended): set_time(seconds) sets the cursor to seconds * sample_rate
\* truncated toward zero (the whole frame at or just below a positive
\* product, at or just above a negative one), and returns true iff the new
\* cursor differs from the one held before the call.
C9_SetTimeTruncates ==
    Sought
    => LET x == data.sample_rate * ret.time.num
           d == ret.time.den
           c == next_frame_to_play
       IN  /\ x >= 0 => (c * d <= x /\ x < (c + 1) * d)
           /\ x <= 0 => ((c - 1) * d < x /\ x <= c * d)
           /\ ret.has_changed <=> (c # ret.before)

\* C9 witness: at rate 2, set_time(-4/3) moved the cursor to frame -2.
C9_Witness ==
    /\ Sought
    /\ data.sample_rate = 2
    /\ ret.time = Time(-4, 3)
    /\ next_frame_to_play = -2
    /\ ret.has_changed

---------------------------------------------------------------------------
(* Properties of the callback and of the stream, under Spec                *)

Slots == DOMAIN out_buffer

\* The callback has filled its block and is about to return.
BlockDone == cb.pc = "return"

\* C4: a callback block that runs entirely while is_playing is false writes
\* 0 to every channel of every frame and leaves the cursor unchanged, so
\* after any number of such blocks followed by play(), the first frame
\* played is the one at the cursor value held through the paused blocks.
C4_PausedThenResumed ==
    /\ (BlockDone /\ blk.mode = "paused")
       => /\ \A i \in Slots : out_buffer[i].written /\ out_buffer[i].v = 0
          /\ ~blk.seek => next_frame_to_play = blk.c0
    /\ held.state = "resumed" => held.f = held.at

\* C5: in a block of N frames during which is_playing stays true and no
\* seek happens, frame i channel c of the output receives sample(c0 + i, c),
\* c0 the cursor at the start of the block, and the cursor ends at c0 + N.
\* (The values are compared when no property was written during the block.)
C5_PlayingAdvance ==
    (BlockDone /\ blk.mode = "playing" /\ ~blk.seek)
    => /\ next_frame_to_play = blk.c0 + cb.frames_count
       /\ \A i \in 0..(cb.frames_count - 1), c \in 0..(output_channels_count - 1) :
            LET slot == out_buffer[i * output_channels_count + c]
            IN  /\ slot.written
                /\ ~blk.props => slot.v = sample(blk.c0 + i, c)

\* C5 witness: a block of two frames played two-channel data from frame 0:
\* the stored samples 1, 2, 3, 4 at volume 1, and the cursor is at 2.
C5_Witness ==
    /\ BlockDone /\ blk.mode = "playing" /\ ~blk.seek /\ ~blk.props
    /\ cb.frames_count = 2 /\ blk.c0 = 0 /\ next_frame_to_play = 2
    /\ data.channels_count = 2 /\ properties.volume = 1
    /\ out_buffer[0].v = 1 /\ out_buffer[1].v = 2
    /\ out_buffer[2].v = 3 /\ out_buffer[3].v = 4

\* C6: the assignment that replaces _data (set_audio_data, reset_audio_data)
\* runs only while the stream is closed and no callback is in flight, and no
\* step of the callback changes _data.
C6_SwapOnlyWhileClosed ==
    [][ /\ ctl.pc = "sad_swap" => (~stream_open /\ cb.pc = "idle")
        /\ data' # data => (ctl.pc = "sad_swap" /\ ~stream_open /\ cb.pc = "idle")
        /\ cb' # cb => data' = data ]_vars

\* C6 witness: set_audio_data has replaced data that a callback had been
\* playing (the cursor had advanced, the stream was open) by other data.
C6_Witness ==
    /\ ctl.op = "set_audio_data" /\ ctl.pc = "rc_close"
    /\ data = ctl.d /\ has_audio_data
    /\ is_playing /\ next_frame_to_play > 2
    /\ ~stream_open /\ cb.pc = "idle"

\* set_audio_data(d) has returned, d was not empty and there is a device.
LoadedWithDevice ==
    /\ ctl.pc = "idle" /\ ret.op = "set_audio_data"
    /\ Len(ret.d.samples) > 0 /\ has_device

\* From its first line to its return, set_audio_data keeps the stream closed
\* and no callback runs.
NoCallbackDuringLoad ==
    (ctl.op = "set_audio_data" /\ ctl.pc # "idle") => (~stream_open /\ cb.pc = "idle")

\* C10 (as claimed): when set_audio_data(d) is called with non-empty d while
\* has_device(), the stream is open on return; no callback runs between the
\* close and the open.
C10_OpenOnReturn ==
    /\ LoadedWithDevice => (stream_open /\ data = ret.d)
    /\ NoCallbackDuringLoad

\* C10 (amended): ... on return the stream has been asked of the backend,
\* and it is open if and only if the backend opened it (it is closed when
\* the backend refused); no callback runs between the close and the open.
C10_OpenOnReturnIfBackendOpens ==
    /\ LoadedWithDevice => (ret.tried /\ stream_open = ret.ok /\ data = ret.d)
    /\ NoCallbackDuringLoad

\* C10 witness: set_audio_data returned with the stream open, and a callback
\* is now writing its block from the new data.
C10_Witness ==
    /\ LoadedWithDevice /\ ret.ok /\ stream_open
    /\ cb.pc = "write" /\ is_playing

\* C11: play() and pause() change only is_playing: the stream-open state,
\* the data, the cursor, the cached output device id and the properties
\* (volume, mute, loop) are after the call what they were before it.
C11_PlayPauseOnlyFlag ==
    [][ /\ CallPlay => (is_playing' /\ UNCHANGED << stream_open, data, next_frame_to_play,
                                                   current_output_device_id, properties >>)
        /\ CallPause => (~is_playing' /\ UNCHANGED << stream_open, data, next_frame_to_play,
                                                     current_output_device_id, properties >>)
      ]_vars

\* C11 witness: play() was called while a block that had started paused was
\* in flight on the open stream, at a cursor the callback had advanced
\* before: the block goes on from that same cursor.
C11_Witness ==
    /\ is_playing /\ stream_open /\ has_audio_data
    /\ cb.pc = "write" /\ blk.mode = "mixed" /\ ~blk.seek
    /\ blk.c0 > 0 /\ next_frame_to_play = blk.c0

\* update_device_if_necessary() has returned after it found another default
\* output device than the cached one.
DeviceUpdated == ctl.pc = "idle" /\ ret.op = "update_device_if_necessary"

\* What every step of update_device_if_necessary does, whatever it returns:
\* with the cached id for answer, the call changes nothing; with another id,
\* that id is cached and the stream is recreated, an open stream being
\* closed before anything else.
UpdateDeviceSteps ==
    [][ /\ \A id \in Devices :
             CallUpdateDeviceSame(id)
             => UNCHANGED << data, next_frame_to_play, is_playing, properties,
                             current_output_device_id, stream_open, ctl >>
        /\ \A id \in Devices :
             CallUpdateDeviceChanged(id)
             => (current_output_device_id' = id /\ ctl'.pc = "rc_close"
                 /\ UNCHANGED << data, next_frame_to_play >>)
        /\ (ctl.op = "update_device_if_necessary" /\ ctl.pc = "rc_close")
           => (StepRecreateClose => ~stream_open')
      ]_vars

C13_CallbackWritesNothing ==
    [][ cb' # cb => UNCHANGED << data, is_playing, next_frame_to_play, properties >> ]_vars

\* C13 (amended): _data, _is_playing and the properties are written by the
\* control thread only; _next_frame_to_play is written by the control thread
\* and by the callback, whose only write is the increment of line 64: one
\* more than the value it read, after a frame it saw playing.
C13_CallbackWritesCursorOnly ==
    [][ cb' # cb
        => /\ UNCHANGED << data, is_playing, properties >>
           /\ next_frame_to_play' # next_frame_to_play
              => (cb.pc = "inc" /\ next_frame_to_play' = cb.tmp + 1) ]_vars

\* C13 witness: the callback, playing, has moved the cursor by one frame
\* in the block in flight, with no seek from the control thread.
C13_Witness ==
    /\ cb.pc = "write" /\ cb.frame_idx = 1
    /\ blk.mode = "playing" /\ ~blk.seek
    /\ blk.c0 > 0 /\ next_frame_to_play = blk.c0 + 1

---------------------------------------------------------------------------
(* Properties of the sample buffer of InputStream, under SpecInput         *)

\* The input callback has pushed its block and trimmed the buffer, and is
\* about to release the mutex.
CycleDone == icb.pc = "unlock"

\* C14: after every completed push-block + trim cycle of the input
\* callback, whatever calls of set_nb_of_retained_samples came in between,
\* samples.size() <= the retained length then in force.
C14_BufferBound == CycleDone => Len(samples) <= nb_of_retained_samples

\* C14 witness: a cycle ended with the buffer trimmed to a retained length
\* of 2 that the control thread had set, 5 samples having been pushed.
C14_Witness ==
    /\ CycleDone /\ nb_of_retained_samples = 2
    /\ Len(samples) = 2 /\ pushed = 5

\* The latest k values pushed, oldest first.
LatestPushed(k) == [i \in 1..k |-> pushed - k + i]

\* C15: with a retained length R that was not raised once pushes had begun,
\* after every push-block + trim cycle the buffer holds the last
\* min(R, total pushed) values pushed, in push order.
C15_BufferContent ==
    (CycleDone /\ ~raised)
    => samples = LatestPushed(Min(nb_of_retained_samples, pushed))

\* C15 witness: with a retained length of 2, after 4 pushes in blocks the
\* buffer holds the values 3, 4; the oldest two were dropped.
C15_Witness ==
    /\ CycleDone /\ ~raised /\ nb_of_retained_samples = 2
    /\ pushed = 4 /\ samples = << 3, 4 >>

\* for_each_sample has visited every sample it was to visit and still
\* holds the mutex.
VisitDone == reader.pc = "visit" /\ Len(visited) = reader.count

\* C16: for_each_sample(n, visit) calls visit min(n, samples available)
\* times, on the latest samples, oldest of them first, with nothing added
\* when fewer than n are available (none, or n beyond the retained length);
\* the values visited are a contiguous run of the push sequence that ends
\* at the latest sample pushed, the input callback being kept out by the
\* mutex meanwhile.
C16_VisitsLatest ==
    /\ VisitDone
       => /\ Len(visited) = Min(reader.samples_count, Len(samples))
          /\ \A j \in 1..Len(visited) :
               visited[j] = samples[Len(samples) - Len(visited) + j]
          /\ \A j \in 1..(Len(visited) - 1) : visited[j + 1] = visited[j] + 1
          /\ Len(visited) > 0 => visited[Len(visited)] = pushed
    /\ reader.pc = "visit" => icb.pc = "idle"

\* C16 witness: for_each_sample(4, visit) with a retained length of 2 and
\* 5 samples pushed visited the values 4, 5 and no other.
C16_Witness ==
    /\ VisitDone /\ reader.samples_count = 4
    /\ nb_of_retained_samples = 2 /\ pushed = 5
    /\ visited = << 4, 5 >>

\* No call of the control thread is in progress.
BetweenCalls == ctl.pc = "idle"

\* C18: after any sequence of construction, set_audio_data, reset_audio_data,
\* play, pause, set_time, update_device_if_necessary and shut_down, an open
\* output stream implies has_audio_data() and has_device(); the stream is
\* closed after reset_audio_data() and after update_device_if_necessary()
\* has found the default device id 0.
C18_StreamOpenInvariant ==
    /\ (BetweenCalls /\ stream_open) => (has_audio_data /\ has_device)
    /\ (BetweenCalls /\ ret.op = "set_audio_data" /\ ret.d = EmptyData) => ~stream_open
    /\ (DeviceUpdated /\ current_output_device_id = 0) => ~stream_open

\* C18 witness: reset_audio_data() has returned, with an output device
\* present and the player playing: no stream is open.
C18_Witness ==
    /\ BetweenCalls /\ ret.op = "set_audio_data" /\ ret.d = EmptyData
    /\ ~has_audio_data /\ has_device /\ is_playing
    /\ ~stream_open

\* C19: a seek is never lost to the callback: while the callback plays,
\* every write of the cursor by the callback adds one to the value the
\* cursor holds at that moment, so that once set_time(t) has written the
\* cursor, the cursor is that value plus the frames the callback advanced
\* since; the increment never puts back (old cursor + 1) over it.
C19_SeekNeverLost ==
    [][ (cb.pc = "inc" /\ cb' # cb) => next_frame_to_play' = next_frame_to_play + 1 ]_vars

\* C20: within one output frame written by the callback, every channel is
\* computed from the same _is_playing and the same _next_frame_to_play, and
\* the cursor is advanced for the frame if and only if its channels were
\* written as played samples, whatever play(), pause() or set_time() the
\* control thread calls while the block is produced.
C20_FrameConsistent ==
    [][ /\ (BlockWrite /\ frm.n > 0)
           => /\ is_playing = frm.playing
              /\ is_playing => next_frame_to_play = frm.cursor
        /\ BlockCheck => (advances <=> frm.playing) ]_vars

====
